---------------------------- MODULE Spec2Model ----------------------------
(***************************************************************************)
(* The expense analyzer of python-service/app.py: the ExpenseAnalyzer      *)
(* transform (aggregation, suggestion rules, efficiency score, pattern     *)
(* detection) and the two POST handlers, /analyze and /insights, that wrap *)
(* it.                                                                     *)
(*                                                                         *)
(* Representation.                                                         *)
(*  - A timestamp is a number of hours since a Monday 00:00, so that       *)
(*    `.dt.date' is  ts \div 24  and `.dt.weekday' is  (ts \div 24) % 7.   *)
(*  - An amount is an integer number of rupees.  The code works in float64;*)
(*    every comparison below is the exact rational one, written without    *)
(*    division (a > 0.5 * b  is  2*a > b, and so on).                      *)
(*  - A formatted message is a record [text, label, args]: the fixed text  *)
(*    of the f-string, the label it interpolates and the exact numbers it  *)
(*    formats.                                                             *)
(*  - A record's field may hold a value pandas cannot parse (NotADate,     *)
(*    NotANumber), a null (Null) or be absent from the dict (Missing).     *)
(***************************************************************************)
EXTENDS Integers, Sequences, FiniteSets

VARIABLES
    hasExpenses,   \* the request body carries the 'expenses' key
    expenses,      \* the request's expenses list
    now,           \* datetime.now() at the moment the request is served
    pc,            \* "idle" | "analyzed" | "insights"
    response       \* the handler's HTTP response

vars == <<hasExpenses, expenses, now, pc, response>>

---------------------------------------------------------------------------
(* Bounds of the model *)

MaxLen == 3             \* records a caller puts in a batch one by one
RecurringTimes == 5     \* further entries of a recurring expense

---------------------------------------------------------------------------
(* Program constants *)

HoursPerDay == 24
ThresholdMedium == 5000
ThresholdHigh == 10000
WindowDays == 30
ConcentrationPercent == 40
RecentDays == 7
TrendPercent == 20
MinSuggestions == 3
MaxSuggestions == 5
BaseScore == 100
VariancePenalty == 20
SmallTransactionPenalty == 15
ConsistencyBonus == 10
SmallAmount == 100
WeekendStart == 5
FrequentCount == 5
DefaultDays == 30

---------------------------------------------------------------------------
(* Input values *)

Null == "<null>"
Missing == "<missing>"
NotADate == -1
NotANumber == -2

\* A Sunday at 08:00, and the Friday after it at 12:00.
Dates == {320, 444}
\* The Sunday a week later at 06:00 and at 12:00, and the Monday after it at
\* 12:00: the first date is within the last 7 days at the first moment only.
Nows == {486, 492, 516}
Amounts == {50, 4000}
Categories == {"Food", "Rent"}
Methods == {"Card", "Cash"}

\* pandas' groupby sorts its keys: the order of the labels as strings.
GroupOrder == <<"Card", "Cash", "Food", "Rent">>

\* What is bought and how it is paid: both categories in cash, one by card too.
Purchases ==
    {p \in Categories \X Methods : p[1] = "Food" => p[2] = "Cash"}

ValidRecords ==
    {[date |-> d, amount |-> a, category |-> p[1], paymentMethod |-> p[2]] :
        d \in Dates, a \in Amounts, p \in Purchases}

GoodRecord == [date |-> 444, amount |-> 50, category |-> "Food", paymentMethod |-> "Cash"]

\* What a careless caller may send: two good records, and the first with one
\* field unparseable, null or left out.
RawRecords ==
    {GoodRecord,
     [date |-> 320, amount |-> 4000, category |-> "Rent", paymentMethod |-> "Card"],
     [GoodRecord EXCEPT !.date = NotADate],
     [GoodRecord EXCEPT !.amount = NotANumber],
     [GoodRecord EXCEPT !.category = Null],
     [GoodRecord EXCEPT !.category = Missing],
     [GoodRecord EXCEPT !.paymentMethod = Null],
     [GoodRecord EXCEPT !.paymentMethod = Missing]}

InsightDays == {10, DefaultDays}

---------------------------------------------------------------------------
(* Arithmetic helpers *)

Abs(x) == IF x < 0 THEN -x ELSE x

RECURSIVE GCD(_, _)
GCD(a, b) == IF b = 0 THEN Abs(a) ELSE GCD(b, a % b)

\* float(a / b) as the exact fraction in lowest terms.
Ratio(a, b) ==
    LET g == GCD(a, b)
    IN  IF g = 0 THEN [num |-> 0, den |-> 1] ELSE [num |-> a \div g, den |-> b \div g]

Indices(df) == 1 .. Len(df)

RECURSIVE SumAmount(_, _)
\* df[rows]['amount'].sum()
SumAmount(df, rows) ==
    IF rows = {} THEN 0
    ELSE LET i == CHOOSE i \in rows : TRUE
         IN  df[i].amount + SumAmount(df, rows \ {i})

RECURSIVE SumOf(_, _)
SumOf(f, keys) ==
    IF keys = {} THEN 0
    ELSE LET k == CHOOSE k \in keys : TRUE
         IN  f[k] + SumOf(f, keys \ {k})

RECURSIVE SumSquares(_, _)
SumSquares(f, keys) ==
    IF keys = {} THEN 0
    ELSE LET k == CHOOSE k \in keys : TRUE
         IN  f[k] * f[k] + SumSquares(f, keys \ {k})

RECURSIVE GCDOf(_, _)
GCDOf(f, keys) ==
    IF keys = {} THEN 0
    ELSE LET k == CHOOSE k \in keys : TRUE
         IN  GCD(f[k], GCDOf(f, keys \ {k}))

Take(s, n) == SubSeq(s, 1, IF Len(s) < n THEN Len(s) ELSE n)

---------------------------------------------------------------------------
(* The DataFrame: grouping and the statistics taken of a grouping *)

\* A column exists when some record's dict has the key.
HasColumn(df, field) == \E i \in Indices(df) : df[i][field] # Missing

\* The keys of df.groupby(field): nulls (and absent values) are dropped.
GroupKeys(df, field) == {df[i][field] : i \in Indices(df)} \ {Null, Missing}

\* A grouping that counts the records of a label where the code sums them.
GroupCount(df, field) ==
    [k \in GroupKeys(df, field) |->
        Cardinality({i \in Indices(df) : df[i][field] = k})]

\* df.groupby(field)['amount'].sum()
GroupSum(df, field) ==
    [k \in GroupKeys(df, field) |->
        SumAmount(df, {i \in Indices(df) : df[i][field] = k})]

Rank(label) == CHOOSE i \in 1 .. Len(GroupOrder) : GroupOrder[i] = label

\* The keys of a grouping in the order pandas iterates them.
SortedKeys(keys) == SelectSeq(GroupOrder, LAMBDA l : l \in keys)

\* Series.idxmax(): the first key, in grouping order, holding the maximum.
IdxMax(totals) ==
    CHOOSE k \in DOMAIN totals :
        \A j \in DOMAIN totals :
            totals[j] < totals[k] \/ (totals[j] = totals[k] /\ Rank(k) <= Rank(j))

\* Series.max()
MaxOf(totals) == totals[IdxMax(totals)]

DayOf(ts) == ts \div HoursPerDay

Weekday(ts) == DayOf(ts) % 7

\* df.groupby(df['date'].dt.date)['amount'].sum()
DailySpending(df) ==
    [d \in {DayOf(df[i].date) : i \in Indices(df)} |->
        SumAmount(df, {i \in Indices(df) : DayOf(df[i].date) = d})]

\* The totals of a series divided by their common divisor: std()/mean() is
\* the same for both, and the squares stay small.
Reduced(series) ==
    LET g == GCDOf(series, DOMAIN series)
    IN  [k \in DOMAIN series |-> IF g = 0 THEN 0 ELSE series[k] \div g]

\* n * (n-1) * n * var(series), var with ddof = 1 as Series.std() takes it:
\* var = (n * sum(x^2) - sum(x)^2) / (n * (n-1)).
ScaledVariance(series) ==
    LET n == Cardinality(DOMAIN series)
        s == SumOf(series, DOMAIN series)
    IN  n * (n * SumSquares(series, DOMAIN series) - s * s)

\* (n-1) * n^2 * mean(series)^2
ScaledSquaredMean(series) ==
    LET n == Cardinality(DOMAIN series)
        s == SumOf(series, DOMAIN series)
    IN  (n - 1) * s * s

\* series.std() > series.mean() * p / q, for totals that are not negative.
StdAbove(series, p, q) ==
    LET x == Reduced(series)
    IN  q * q * ScaledVariance(x) > p * p * ScaledSquaredMean(x)

\* series.std() < series.mean() * p / q, for totals that are not negative.
StdBelow(series, p, q) ==
    LET x == Reduced(series)
    IN  q * q * ScaledVariance(x) < p * p * ScaledSquaredMean(x)

\* len(daily_spending) > 1 and std > mean * 0.5   (lines 111 and 187)
HighDailyVariance(df) ==
    LET daily_spending == DailySpending(df)
    IN  Cardinality(DOMAIN daily_spending) > 1 /\ StdAbove(daily_spending, 1, 2)

\* The bonus condition with 2 for 0.2.
ConsistentDailyLoose(df) ==
    LET daily_spending == DailySpending(df)
    IN  Cardinality(DOMAIN daily_spending) > 1 /\ StdBelow(daily_spending, 2, 1)

\* len(daily_spending) > 1 and std < mean * 0.2   (line 196)
ConsistentDaily(df) ==
    LET daily_spending == DailySpending(df)
    IN  Cardinality(DOMAIN daily_spending) > 1 /\ StdBelow(daily_spending, 1, 5)

RECURSIVE SortedAmounts(_, _)
\* The amounts of the rows, ascending.
SortedAmounts(df, rows) ==
    IF rows = {} THEN <<>>
    ELSE LET i == CHOOSE i \in rows : \A j \in rows : df[i].amount <= df[j].amount
         IN  <<df[i].amount>> \o SortedAmounts(df, rows \ {i})

\* Ten times df['amount'].quantile(0.9), the quantile interpolated linearly
\* between ranks: position 0.9 * (n-1) of the sorted amounts.
TenQuantile90(df) ==
    LET a == SortedAmounts(df, Indices(df))
        n == Len(a)
        j == (9 * (n - 1)) \div 10
        r == 9 * (n - 1) - 10 * j          \* ten times the fraction
        hi == IF j + 2 <= n THEN a[j + 2] ELSE a[j + 1]
    IN  10 * a[j + 1] + r * (hi - a[j + 1])

---------------------------------------------------------------------------
(* ExpenseAnalyzer *)

Message(text, label, args) == [text |-> text, label |-> label, args |-> args]

Suggestion(type, message, priority) ==
    [type |-> type, message |-> message, priority |-> priority]

\* Rule 1 with its two tests in the other order: the medium one wins.
SpendingLevelMediumFirst(total_spending) ==
    IF total_spending > ThresholdMedium
    THEN <<Suggestion("advice",
               Message("Your spending is moderate", "", <<total_spending>>),
               "medium")>>
    ELSE IF total_spending > ThresholdHigh
    THEN <<Suggestion("warning",
               Message("Your total spending is quite high", "", <<total_spending>>),
               "high")>>
    ELSE <<>>

\* Rule 1, spending level (lines 83-94).
SpendingLevel(total_spending) ==
    IF total_spending > ThresholdHigh
    THEN <<Suggestion("warning",
               Message("Your total spending is quite high", "", <<total_spending>>),
               "high")>>
    ELSE IF total_spending > ThresholdMedium
    THEN <<Suggestion("advice",
               Message("Your spending is moderate", "", <<total_spending>>),
               "medium")>>
    ELSE <<>>

\* Rule 2, one advice per category above 40 % of the total, in grouping
\* order (lines 97-107).  The percentage is of a positive total.
CategoryConcentration(df, total_spending) ==
    LET category_totals == GroupSum(df, "category")
        high == SelectSeq(SortedKeys(DOMAIN category_totals),
                    LAMBDA c : total_spending > 0
                               /\ 100 * category_totals[c]
                                    > ConcentrationPercent * total_spending)
    IN  [i \in 1 .. Len(high) |->
            Suggestion("advice",
                Message("accounts for a high share of your spending", high[i],
                        <<category_totals[high[i]], total_spending>>),
                "medium")]

\* Rule 3, daily variance (lines 110-116).
DailyVariance(df) ==
    IF HighDailyVariance(df)
    THEN <<Suggestion("tip",
               Message("Your daily spending varies significantly", "", <<>>),
               "low")>>
    ELSE <<>>

\* Rule 4, a single payment method (lines 119-125): value_counts() drops
\* the nulls.
PaymentDiversity(df) ==
    LET payment_methods == GroupKeys(df, "paymentMethod")
    IN  IF Cardinality(payment_methods) = 1
        THEN <<Suggestion("tip",
                   Message("You only use one payment method",
                           CHOOSE m \in payment_methods : TRUE, <<>>),
                   "low")>>
        ELSE <<>>

\* The recent rows taken by calendar date, as the daily totals are.
RecentRowsByDate(df, t) ==
    {i \in Indices(df) : DayOf(df[i].date) >= DayOf(t - RecentDays * HoursPerDay)}

\* df[df['date'] >= datetime.now() - timedelta(days=7)]   (line 128)
RecentRows(df, t) ==
    {i \in Indices(df) : df[i].date >= t - RecentDays * HoursPerDay}

\* Rule 5, recent trend (lines 128-145).
RecentTrend(df, total_spending, t) ==
    LET recent_expenses == RecentRows(df, t)
        recent_total == SumAmount(df, recent_expenses)
        previous_week_total == total_spending - recent_total
        change == 100 * (recent_total - previous_week_total)
    IN  IF recent_expenses # {} /\ previous_week_total > 0
        THEN IF change > TrendPercent * previous_week_total
             THEN <<Suggestion("warning",
                        Message("Your spending increased this week", "",
                                <<recent_total, previous_week_total>>),
                        "medium")>>
             ELSE IF change < -TrendPercent * previous_week_total
             THEN <<Suggestion("positive",
                        Message("Great job! Your spending decreased this week", "",
                                <<recent_total, previous_week_total>>),
                        "low")>>
             ELSE <<>>
        ELSE <<>>

\* The general tip (lines 149-153).
GeneralTip ==
    Suggestion("tip", Message("Track your expenses regularly", "", <<>>), "low")

\* What rules 1-5 append, in the order the code runs them.
RuleSuggestions(df, total_spending, t) ==
    SpendingLevel(total_spending)
        \o CategoryConcentration(df, total_spending)
        \o DailyVariance(df)
        \o PaymentDiversity(df)
        \o RecentTrend(df, total_spending, t)

\* The general tip added to 3 suggestions too.
AddGeneralTipsUpTo(suggestions) ==
    IF Len(suggestions) <= MinSuggestions
    THEN Append(suggestions, GeneralTip)
    ELSE suggestions

\* if len(suggestions) < 3: suggestions.append(general tip)   (lines 148-153)
AddGeneralTips(suggestions) ==
    IF Len(suggestions) < MinSuggestions
    THEN Append(suggestions, GeneralTip)
    ELSE suggestions

\* The whole list, not cut.
Unlimited(suggestions) == suggestions

\* suggestions[:5]   (line 155)
Limit(suggestions) == Take(suggestions, MaxSuggestions)

\* ExpenseAnalyzer._generate_suggestions
generate_suggestions(df, total_spending, t) ==
    Limit(AddGeneralTips(RuleSuggestions(df, total_spending, t)))

Max(a, b) == IF a > b THEN a ELSE b

Min(a, b) == IF a < b THEN a ELSE b

\* The score as it adds up, not clamped.
Unclamped(score) == score

\* max(0, min(100, score))   (line 199)
Clamp(score) == Max(0, Min(100, score))

\* small_transactions > len(df) * 0.3   (lines 191-192)
ManySmallTransactions(df) ==
    10 * Cardinality({i \in Indices(df) : df[i].amount < SmallAmount}) > 3 * Len(df)

\* ExpenseAnalyzer._calculate_efficiency_score
calculate_efficiency_score(df) ==
    LET s1 == BaseScore - (IF HighDailyVariance(df) THEN VariancePenalty ELSE 0)
        s2 == s1 - (IF ManySmallTransactions(df) THEN SmallTransactionPenalty ELSE 0)
        s3 == s2 + (IF ConsistentDaily(df) THEN ConsistencyBonus ELSE 0)
    IN  Clamp(s3)

\* int(category_counts.max()) > 5   (lines 213-214)
FrequentCategory(df) ==
    \E c \in GroupKeys(df, "category") :
        Cardinality({i \in Indices(df) : df[i].category = c}) > FrequentCount

\* ExpenseAnalyzer._identify_patterns
identify_patterns(df) ==
    LET weekend_spending ==
            SumAmount(df, {i \in Indices(df) : Weekday(df[i].date) >= WeekendStart})
        weekday_spending ==
            SumAmount(df, {i \in Indices(df) : Weekday(df[i].date) < WeekendStart})
        quantile == TenQuantile90(df)
        large_transactions ==
            {i \in Indices(df) : 10 * df[i].amount > quantile}
    IN  (IF weekday_spending > 0 /\ 2 * weekend_spending > 3 * weekday_spending
         THEN <<"Higher spending on weekends">> ELSE <<>>)
        \o (IF FrequentCategory(df)
            THEN <<"Frequent expenses in certain categories">> ELSE <<>>)
        \o (IF Len(df) > 0 /\ large_transactions # {}
            THEN <<"Occasional large transactions">> ELSE <<>>)

\* ExpenseAnalyzer._detailed_analysis
detailed_analysis(df, total_spending, top_category, top_category_amount) ==
    [totalSpending |-> total_spending,
     averageDailySpending |-> Ratio(total_spending, WindowDays),
     topCategory |-> top_category,
     topCategoryAmount |-> top_category_amount,
     categoryBreakdown |-> GroupSum(df, "category"),
     paymentMethodBreakdown |-> GroupSum(df, "paymentMethod"),
     efficiencyScore |-> calculate_efficiency_score(df),
     patterns |-> identify_patterns(df),
     message |-> Message("Analysis complete", "", <<total_spending>>)]

\* The result for no data (lines 39-54).
NoData ==
    [suggestions |->
        <<Suggestion("info",
            Message("No expense data available for analysis.", "", <<>>), "low")>>,
     analysis |->
        [totalSpending |-> 0,
         averageDailySpending |-> Ratio(0, 1),
         topCategory |-> "None",
         message |->
            Message("Start tracking your expenses to get personalized insights!",
                    "", <<>>)]]

\* The exception the pandas calls of lines 57-65 and 119 raise, "" for none.
AnalyzeRaises(df) ==
    IF \E i \in Indices(df) : df[i].date = NotADate THEN "to_datetime: cannot parse"
    ELSE IF \E i \in Indices(df) : df[i].amount = NotANumber THEN "to_numeric: cannot parse"
    ELSE IF ~HasColumn(df, "category") THEN "KeyError: 'category'"
    ELSE IF GroupKeys(df, "category") = {} THEN "ValueError: idxmax of an empty sequence"
    ELSE IF ~HasColumn(df, "paymentMethod") THEN "KeyError: 'paymentMethod'"
    ELSE ""

\* The body of analyze_expenses for a batch that is not empty (lines 56-76).
Analyzed(df, t) ==
    LET total_spending == SumAmount(df, Indices(df))
        category_totals == GroupSum(df, "category")
        top_category == IdxMax(category_totals)
        top_category_amount == MaxOf(category_totals)
    IN  [suggestions |-> generate_suggestions(df, total_spending, t),
         analysis |-> detailed_analysis(df, total_spending, top_category,
                                        top_category_amount)]

\* analyze_expenses without its test for no data.
analyze_unguarded(expenses_data, t) ==
    LET raised == AnalyzeRaises(expenses_data)
    IN  IF raised # "" THEN [raised |-> raised, result |-> <<>>]
        ELSE [raised |-> "", result |-> Analyzed(expenses_data, t)]

\* ExpenseAnalyzer.analyze_expenses: [raised, result]
analyze_expenses(expenses_data, t) ==
    LET raised == AnalyzeRaises(expenses_data)
    IN  IF expenses_data = <<>> THEN [raised |-> "", result |-> NoData]
        ELSE IF raised # "" THEN [raised |-> raised, result |-> <<>>]
        ELSE [raised |-> "", result |-> Analyzed(expenses_data, t)]

---------------------------------------------------------------------------
(* The handlers *)

NoResponse == [status |-> 0, body |-> <<>>]

MissingExpenses == [status |-> 400, body |-> [error |-> "Missing expenses data"]]

Failure(error, message) ==
    [status |-> 500, body |-> [error |-> error, message |-> message]]

Ok(body) == [status |-> 200, body |-> body]

\* POST /analyze (lines 237-264): the numbers of a result keep their values
\* through convert_numpy_types and jsonify.
analyze_route(present, data, t) ==
    IF ~present THEN MissingExpenses
    ELSE LET r == analyze_expenses(data, t)
         IN  IF r.raised # "" THEN Failure("Analysis failed", r.raised)
             ELSE Ok(r.result)

\* The exception lines 281-294 raise, "" for none: an empty list makes a
\* DataFrame without columns.
InsightsRaises(df) ==
    IF df = <<>> THEN "KeyError: 'date'"
    ELSE IF \E i \in Indices(df) : df[i].date = NotADate THEN "to_datetime: cannot parse"
    ELSE IF \E i \in Indices(df) : df[i].amount = NotANumber THEN "to_numeric: cannot parse"
    ELSE IF ~HasColumn(df, "category") THEN "KeyError: 'category'"
    ELSE IF ~HasColumn(df, "paymentMethod") THEN "KeyError: 'paymentMethod'"
    ELSE ""

\* idxmax() if len(totals) > 0 else 'None'   (lines 291 and 295)
TopLabel(totals) == IF DOMAIN totals # {} THEN IdxMax(totals) ELSE "None"

\* The insights of lines 286-306.
InsightsOf(df, days) ==
    LET total_spending == SumAmount(df, Indices(df))
        category_totals == GroupSum(df, "category")
        payment_totals == GroupSum(df, "paymentMethod")
    IN  [totalSpending |-> total_spending,
         averageDailySpending |-> Ratio(total_spending, days),
         topCategory |-> TopLabel(category_totals),
         topPaymentMethod |-> TopLabel(payment_totals),
         categoryBreakdown |-> category_totals,
         paymentMethodBreakdown |-> payment_totals,
         transactionCount |-> Len(df),
         daysAnalyzed |-> days]

\* POST /insights (lines 266-314)
get_insights(present, data, days) ==
    LET raised == InsightsRaises(data)
    IN  IF ~present THEN MissingExpenses
        ELSE IF raised # "" THEN Failure("Insights generation failed", raised)
        ELSE Ok(InsightsOf(data, days))

---------------------------------------------------------------------------
(* The state machine: a caller assembles a request, a handler serves it *)

\* A request with its expenses list, still empty.
Init ==
    /\ hasExpenses = TRUE
    /\ expenses = <<>>
    /\ now = 0
    /\ pc = "idle"
    /\ response = NoResponse

\* A request with or without the 'expenses' key.
InitBoundary ==
    /\ hasExpenses \in BOOLEAN
    /\ expenses = <<>>
    /\ now = 0
    /\ pc = "idle"
    /\ response = NoResponse

\* The caller adds a well-formed record.
AddExpense ==
    /\ pc = "idle"
    /\ hasExpenses
    /\ Len(expenses) < MaxLen
    /\ \E r \in ValidRecords : expenses' = Append(expenses, r)
    /\ UNCHANGED <<hasExpenses, now, pc, response>>

\* The caller adds the last record RecurringTimes more: a recurring expense.
AddRecurring ==
    /\ pc = "idle"
    /\ hasExpenses
    /\ Len(expenses) >= 1
    /\ Len(expenses) <= MaxLen
    /\ expenses' = expenses \o [i \in 1 .. RecurringTimes |-> expenses[Len(expenses)]]
    /\ UNCHANGED <<hasExpenses, now, pc, response>>

\* The caller adds a record as it comes, well-formed or not.
AddRaw ==
    /\ pc = "idle"
    /\ hasExpenses
    /\ Len(expenses) < MaxLen
    /\ \E r \in RawRecords : expenses' = Append(expenses, r)
    /\ UNCHANGED <<hasExpenses, now, pc, response>>

\* POST /analyze is served at some moment t.
Analyze ==
    /\ pc = "idle"
    /\ \E t \in Nows :
        /\ now' = t
        /\ response' = analyze_route(hasExpenses, expenses, t)
    /\ pc' = "analyzed"
    /\ UNCHANGED <<hasExpenses, expenses>>

\* POST /insights is served, with the caller's days.
Insights ==
    /\ pc = "idle"
    /\ \E days \in InsightDays : response' = get_insights(hasExpenses, expenses, days)
    /\ pc' = "insights"
    /\ UNCHANGED <<hasExpenses, expenses, now>>

Next == AddExpense \/ AddRecurring \/ Analyze

Spec == Init /\ [][Next]_vars

NextBoundary == AddRaw \/ Analyze \/ Insights

SpecBoundary == InitBoundary /\ [][NextBoundary]_vars

---------------------------------------------------------------------------
(* The claims *)

\* POST /analyze answered with a result.
Served == pc = "analyzed" /\ response.status = 200

\* POST /analyze answered with a result for a batch that is not empty.
ServedBatch == Served /\ expenses # <<>>

\* C1: for a valid batch that is not empty, totalSpending is the sum of all
\* amounts, each value of categoryBreakdown and of paymentMethodBreakdown is
\* the sum of the amounts of the records with that label, and the values of
\* each breakdown add up to totalSpending; the batches of the model come in
\* every order of their records.
C1_BreakdownsSumToTotal ==
    ServedBatch =>
        LET a == response.body.analysis
        IN  /\ a.totalSpending = SumAmount(expenses, Indices(expenses))
            /\ \A c \in DOMAIN a.categoryBreakdown :
                a.categoryBreakdown[c]
                    = SumAmount(expenses,
                        {i \in Indices(expenses) : expenses[i].category = c})
            /\ \A m \in DOMAIN a.paymentMethodBreakdown :
                a.paymentMethodBreakdown[m]
                    = SumAmount(expenses,
                        {i \in Indices(expenses) : expenses[i].paymentMethod = m})
            /\ SumOf(a.categoryBreakdown, DOMAIN a.categoryBreakdown) = a.totalSpending
            /\ SumOf(a.paymentMethodBreakdown, DOMAIN a.paymentMethodBreakdown)
                    = a.totalSpending

\* A result whose two breakdowns have two labels each.
C1_Witness ==
    /\ ServedBatch
    /\ Len(expenses) = 3
    /\ Cardinality(DOMAIN response.body.analysis.categoryBreakdown) = 2
    /\ Cardinality(DOMAIN response.body.analysis.paymentMethodBreakdown) = 2

\* C2 as claimed: the analysis of any batch, the empty one included, carries
\* an efficiencyScore in 0..100.
C2_ScoreForAnyBatch ==
    Served =>
        /\ "efficiencyScore" \in DOMAIN response.body.analysis
        /\ response.body.analysis.efficiencyScore \in 0 .. 100

\* C2: the analysis of a batch that is not empty carries an efficiencyScore
\* that is an integer in 0..100; the analysis of the empty batch carries none.
C2_ScoreInRange ==
    Served =>
        IF expenses = <<>>
        THEN "efficiencyScore" \notin DOMAIN response.body.analysis
        ELSE /\ "efficiencyScore" \in DOMAIN response.body.analysis
             /\ response.body.analysis.efficiencyScore \in 0 .. 100

\* A batch whose score the clamp cuts: the bonus for consistent days and no
\* penalty.
C2_Witness ==
    /\ ServedBatch
    /\ ConsistentDaily(expenses)
    /\ ~ManySmallTransactions(expenses)
    /\ response.body.analysis.efficiencyScore = 100

\* C3: the suggestions of an accepted batch are at most 5 and its patterns
\* at most 3.
C3_ListLimits ==
    Served =>
        /\ Len(response.body.suggestions) <= 5
        /\ "patterns" \in DOMAIN response.body.analysis
                => Len(response.body.analysis.patterns) <= 3

\* A batch for which the rules generate six suggestions, cut to five.
C3_Witness ==
    /\ ServedBatch
    /\ Len(RuleSuggestions(expenses, response.body.analysis.totalSpending, now)) = 6
    /\ Len(response.body.suggestions) = 5

\* C4: the empty batch is answered with one suggestion, of type info, and an
\* analysis of exactly totalSpending 0, averageDailySpending 0, topCategory
\* "None" and the fixed message: nothing an aggregation, a rule, the score or
\* the pattern detection would add.
C4_EmptyBatch ==
    (pc = "analyzed" /\ hasExpenses /\ expenses = <<>>) =>
        /\ response.status = 200
        /\ Len(response.body.suggestions) = 1
        /\ response.body.suggestions[1].type = "info"
        /\ DOMAIN response.body.analysis
              = {"totalSpending", "averageDailySpending", "topCategory", "message"}
        /\ response.body.analysis.totalSpending = 0
        /\ response.body.analysis.averageDailySpending.num = 0
        /\ response.body.analysis.topCategory = "None"
        /\ response.body.analysis.message.text
              = "Start tracking your expenses to get personalized insights!"

\* The empty batch was analyzed.
C4_Witness == pc = "analyzed" /\ hasExpenses /\ expenses = <<>> /\ response.status = 200

\* The records of the batch dated within the 7 days before t are those dated
\* within the 7 days before the moment the request was served.
SameRecent(t) ==
    \A i \in Indices(expenses) :
        (expenses[i].date >= t - 7 * 24) <=> (expenses[i].date >= now - 7 * 24)

\* C5 as claimed: the answer to a batch is the same at whatever moment the
\* call is made.
C5_SameAtAnyMoment ==
    pc = "analyzed" =>
        \A t \in Nows : analyze_route(hasExpenses, expenses, t) = response

\* C5: the analysis of a batch is the same at whatever moment the call is
\* made, and so are its suggestions at any two moments that have the same
\* records of the batch within their last 7 days.
C5_SameForSameRecent ==
    ServedBatch =>
        \A t \in Nows \ {now} :
            LET r == analyze_expenses(expenses, t).result
            IN  /\ r.analysis = response.body.analysis
                /\ SameRecent(t) => r.suggestions = response.body.suggestions

\* A batch with an old and a recent record, served at the second moment: the
\* trend rule fired, and the third moment has the same recent records.
C5_Witness ==
    /\ ServedBatch
    /\ now = 492
    /\ \E i \in Indices(expenses) : expenses[i].date = 320
    /\ \E i \in Indices(expenses) : expenses[i].date = 444
    /\ \E k \in 1 .. Len(response.body.suggestions) :
          response.body.suggestions[k].message.text = "Your spending increased this week"
    /\ SameRecent(516)

\* The texts of a list of suggestions, in order.
Texts(suggestions) == [k \in 1 .. Len(suggestions) |-> suggestions[k].message.text]

\* A batch of one category and one payment method, above the high threshold,
\* dated within the 30 days before the moment it is served.
OneLabelHighSpending ==
    /\ ServedBatch
    /\ \A i, j \in Indices(expenses) :
          /\ expenses[i].category = expenses[j].category
          /\ expenses[i].paymentMethod = expenses[j].paymentMethod
    /\ SumAmount(expenses, Indices(expenses)) > 10000
    /\ \A i \in Indices(expenses) :
          expenses[i].date >= now - 30 * 24 /\ expenses[i].date <= now

\* The high-spending warning, the category advice and the payment tip, and
\* nothing else.
WarningAdviceTip ==
    /\ Texts(response.body.suggestions)
          = <<"Your total spending is quite high",
              "accounts for a high share of your spending",
              "You only use one payment method">>
    /\ response.body.suggestions[1].type = "warning"
    /\ response.body.suggestions[2].type = "advice"
    /\ response.body.suggestions[2].message.label = expenses[1].category
    /\ response.body.suggestions[3].type = "tip"
    /\ response.body.suggestions[3].message.label = expenses[1].paymentMethod

\* C6 as claimed: such a batch gets exactly the warning, the advice and the
\* tip, in this order.
C6_ThreeSuggestions == OneLabelHighSpending => WarningAdviceTip

\* C6: such a batch gets exactly the warning, the advice and the tip, in this
\* order, when its records are all of one calendar day and either all or none
\* of them are dated within the 7 days before the call.
C6_ThreeSuggestionsOneDay ==
    ( /\ OneLabelHighSpending
      /\ \A i, j \in Indices(expenses) :
            expenses[i].date \div 24 = expenses[j].date \div 24
      /\ \/ \A i \in Indices(expenses) : expenses[i].date >= now - 7 * 24
         \/ \A i \in Indices(expenses) : expenses[i].date < now - 7 * 24 )
    => WarningAdviceTip

\* Three records of 4000 of one day, one category and one payment method.
C6_Witness ==
    /\ OneLabelHighSpending
    /\ Len(expenses) = 3
    /\ \A i \in Indices(expenses) : expenses[i].date = expenses[1].date
    /\ response.body.analysis.totalSpending = 12000
    /\ Len(response.body.suggestions) = 3

\* POST /insights answered for a request that carries a parseable expenses
\* list whose category totals or payment-method totals are empty.
EmptyTotals ==
    /\ pc = "insights"
    /\ hasExpenses
    /\ \A i \in Indices(expenses) :
          expenses[i].date # NotADate /\ expenses[i].amount # NotANumber
    /\ \/ \A i \in Indices(expenses) : expenses[i].category \in {Null, Missing}
       \/ \A i \in Indices(expenses) : expenses[i].paymentMethod \in {Null, Missing}

\* C7: with empty category totals, or empty payment-method totals, the empty
\* expenses list among them, /insights answers with a result whose top label
\* for these totals is "None", not with an error.
C7_EmptyTotalsGiveNone ==
    EmptyTotals =>
        /\ response.status = 200
        /\ (\A i \in Indices(expenses) : expenses[i].category \in {Null, Missing})
              => response.body.topCategory = "None"
        /\ (\A i \in Indices(expenses) : expenses[i].paymentMethod \in {Null, Missing})
              => response.body.topPaymentMethod = "None"

\* A record /analyze cannot use: its date or amount does not parse, or a
\* field is absent from it.
Unusable(r) ==
    \/ r.date = NotADate
    \/ r.amount = NotANumber
    \/ r.category = Missing
    \/ r.paymentMethod = Missing

\* C8: /analyze answers a request without the expenses list with the
\* input-missing error, and a batch with an unusable record, wherever it
\* stands, with the analysis-failure error and nothing else.
C8_AllOrNothing ==
    pc = "analyzed" =>
        /\ ~hasExpenses => response = MissingExpenses
        /\ (hasExpenses /\ \E i \in Indices(expenses) : Unusable(expenses[i]))
              => /\ response.status = 500
                 /\ response.body.error = "Analysis failed"
                 /\ DOMAIN response.body = {"error", "message"}

\* C9: for a valid batch that is not empty, the general tip is among the
\* suggestions exactly when rules 1-5 generated fewer than 3; it is then the
\* last one; and the suggestions are the first 5 of what was generated, in
\* the order of the rules.
C9_GeneralTip ==
    ServedBatch =>
        LET generated ==
                RuleSuggestions(expenses, response.body.analysis.totalSpending, now)
            got == response.body.suggestions
            tipped == \E k \in 1 .. Len(got) : got[k] = GeneralTip
        IN  /\ tipped <=> Len(generated) < 3
            /\ tipped => got[Len(got)] = GeneralTip /\ got = Append(generated, GeneralTip)
            /\ ~tipped => got = Take(generated, 5)

\* Two rules fired and the general tip closes the list.
C9_Witness ==
    /\ ServedBatch
    /\ Len(RuleSuggestions(expenses, response.body.analysis.totalSpending, now)) = 2
    /\ Len(response.body.suggestions) = 3
    /\ response.body.suggestions[3] = GeneralTip

\* C10: the -20 condition and the +10 condition of the efficiency score never
\* hold of the same batch.
C10_PenaltyExcludesBonus ==
    ServedBatch => ~(HighDailyVariance(expenses) /\ ConsistentDaily(expenses))

\* A batch of two days for which neither holds: the score is 100 or 85.
C10_Witness ==
    /\ ServedBatch
    /\ Cardinality(DOMAIN DailySpending(expenses)) = 2
    /\ ~HighDailyVariance(expenses)
    /\ ~ConsistentDaily(expenses)
    /\ response.body.analysis.efficiencyScore \in {85, 100}

===========================================================================
